---- MODULE Spec2Model ----
(***************************************************************************)
(* Model of main.py, the wallet watch bot: the state store (eth_last,      *)
(* tron_last, btc_seen), the price cache, bootstrap_mark_latest and the    *)
(* polling loop of main().                                                 *)
(*                                                                         *)
(* The clock is counted in whole clock units; the retention window and the *)
(* price-cache TTL are scaled to that unit.  A provider reply is drawn     *)
(* when the coordinator consumes the future (as_completed yields futures   *)
(* in any order, and a reply does not depend on the coordinator's state).  *)
(* A step of the fan-in loop is the whole body of the loop for one future. *)
(***************************************************************************)
EXTENDS Integers, Sequences, FiniteSets, TLC

\* ------------------------------------------------------------ bounds
MaxTime == 2        \* the clock and the transfer timestamps range over 0..MaxTime
MaxTicks == 2       \* number of iterations of the main loop that are explored
MaxTxs == 2         \* longest list a BTC provider returns
Chunks == 2         \* number of pieces json.dump writes a file in

\* ------------------------------------------------------------ configuration
SEEN_TTL_HOURS == 1
ClockUnitsPerHour == 1
PRICE_CACHE_TTL == 1
MIN_USD_THRESHOLD == 2

\* the addresses that ETH_LABELS, BTC_LABELS and TRON_LABELS may name
EthAddrs == {"e1"}
BtcAddrs == {"b1"}
TronAddrs == {"t1"}
Addrs == EthAddrs \cup BtcAddrs \cup TronAddrs

EthHashes == {"H1", "H2"}
TronIds == {"R1", "R2"}
BtcTxIds == {"T1", "T2"}
Times == 0..MaxTime
BtcKeys == BtcAddrs \X BtcTxIds

\* the environment switches, fixed when the module is loaded
Configs == [BOOTSTRAP_ON_START : BOOLEAN, BTC_ONLY_LATEST : BOOLEAN,
            DROP_BTC_BACKLOG : BOOLEAN, BTC_CONFIRM_UPDATE : BOOLEAN]

\* what the surroundings of a run may do: a post to the message service may
\* fail, a request to the price service may fail; a request to a provider may
\* fail, a reply may carry an amount that does not parse or a future may raise
\* (bad_data)
Envs == [sink_fails : BOOLEAN, price_fails : BOOLEAN, bad_data : BOOLEAN]

Defaults == [BOOTSTRAP_ON_START |-> TRUE, BTC_ONLY_LATEST |-> TRUE,
             DROP_BTC_BACKLOG |-> TRUE, BTC_CONFIRM_UPDATE |-> TRUE]
NoBootstrap == [Defaults EXCEPT !.BOOTSTRAP_ON_START = FALSE]
Calm == [sink_fails |-> FALSE, price_fails |-> FALSE, bad_data |-> FALSE]
OneTrouble == {e \in Envs : \E f \in DOMAIN e : e = [Calm EXCEPT ![f] = TRUE]}

\* the runs explored: the watch list and switches the process is started with,
\* and what its surroundings may do
Deployments ==
    ({{"b1"}} \X Configs \X {Calm})
    \cup ({{"b1"}} \X {Defaults} \X OneTrouble)
    \cup ({{"e1", "t1"}} \X {Defaults, NoBootstrap} \X Envs)
    \cup ({{"e1", "b1"}, {"t1", "b1"}} \X {NoBootstrap} \X {[Calm EXCEPT !.bad_data = TRUE]})

\* ------------------------------------------------------------ provider replies
\* get_latest_eth_tx: None (<<>>) or the newest inbound transaction.  value is
\* the amount in ETH when parsable; parsable = FALSE is a value neither int()
\* nor float() accepts.
EthTx == [hash : EthHashes, value : {1, 3}, parsable : BOOLEAN]
EthResults == {<<>>} \cup {<<tx>> : tx \in EthTx}

\* get_latest_tron_tx: None (<<>>) or the newest inbound TRC20 transfer.
TronTx == [transaction_id : TronIds, value : {0, 1}, parsable : BOOLEAN]
TronResults == {<<>>} \cup {<<tx>> : tx \in TronTx}

\* the amount of a transaction is the sum of its outputs to the address, the
\* same in every reply that lists it
BtcAmount == [id \in BtcTxIds |-> 3]
BtcTx == {[hash |-> id, amount |-> BtcAmount[id], confirmed |-> c, time |-> t] :
             id \in BtcTxIds, c \in BOOLEAN, t \in Times}

\* sorted(..., key=time, reverse=True) over a dict keyed by hash
NewestFirst(txs) ==
    /\ \A i \in 1..Len(txs) : \A j \in 1..Len(txs) :
          /\ (i < j => txs[i].time >= txs[j].time)
          /\ (i # j => txs[i].hash # txs[j].hash)

BtcLists == UNION {[1..n -> BtcTx] : n \in 0..MaxTxs}
BtcResults == {txs \in BtcLists : NewestFirst(txs)}

\* ------------------------------------------------------------ state
NoRec == [absent |-> TRUE]
NoHash == "none"
NoPrice == <<>>

VARIABLES
    pc,           \* position of the main thread
    now,          \* time.time()
    tick,         \* index of the current iteration of the while loop
    cfg,          \* the environment switches
    watch,        \* the addresses of ETH_WALLETS, BTC_WALLETS and TRON_WALLETS
    env,          \* what the surroundings of this run may do
    price_cache,  \* _price_cache: symbol -> <<>> or <<val, ts>>
    eth_price,    \* local of main()
    btc_price,    \* local of main()
    futures,      \* futures of this tick that as_completed has not yielded yet
    workers,      \* <<tick, address>> of the submitted fetch tasks still running
    eth_last,     \* STATE["eth_last"]
    tron_last,    \* STATE["tron_last"]
    btc_seen,     \* STATE["btc_seen"]
    updated_at,   \* STATE["updated_at"]
    outbox,       \* the messages send_message was called with in the last step
    boot_todo,    \* wallets bootstrap_mark_latest has not visited yet
    disk,         \* the files under STATE_FILE's directory and the progress of a save
    hist          \* history of the run (not program state)

vars == <<pc, now, tick, cfg, watch, env, price_cache, eth_price, btc_price, futures, workers, disk,
          eth_last, tron_last, btc_seen, updated_at, outbox, boot_todo, hist>>

ETH_WALLETS == watch \cap EthAddrs
BTC_WALLETS == watch \cap BtcAddrs
TRON_WALLETS == watch \cap TronAddrs
Wallets == watch

\* the tuple stored beside a future; parse_wallets gives each address its label
ChainOf(a) == IF a \in EthAddrs THEN "ETH" ELSE IF a \in BtcAddrs THEN "BTC" ELSE "TRON"
Label(a) == "label of " \o a
Tag(a) == [chain |-> ChainOf(a), addr |-> a, label |-> Label(a)]

\* every future is tagged with the tuple of the other watched address (the
\* tags are attached in another order than the submits)
FuturesMapSwapped == [f \in Wallets |-> Tag(CHOOSE g \in Wallets : Wallets = {f} \/ g # f)]

\* the futures dict of a tick: the future of the fetch for address f (named
\* f) -> the tuple of the loop variables it was submitted with
FuturesMap == [f \in Wallets |-> Tag(f)]

\* the futures as_completed can yield: those whose task has returned
Done(f) == <<tick, f>> \notin workers

\* ------------------------------------------------------------ state store
\* prune_state: the records of btc_seen whose last_ts is not before the cutoff
SEEN_TTL == SEEN_TTL_HOURS * ClockUnitsPerHour

PruneCutoff(t) == t - SEEN_TTL

PruneState(seen, t) ==
    [k \in BtcKeys |->
        IF seen[k] # NoRec /\ seen[k].last_ts >= PruneCutoff(t) THEN seen[k] ELSE NoRec]

\* int(ts or time.time()): a timestamp of 0 is falsy
TsOrNow(ts, t) == IF ts = 0 THEN t ELSE ts

\* the record mark_btc stores; notified and confirmed are "keep" for None.
\* Every call of the program passes ts.  first_ts is written when the record
\* is created and read nowhere: the model's records do not carry it.
MarkedRec(old, ts, notified, confirmed, t) ==
    LET rec == IF old = NoRec
               THEN [last_ts |-> TsOrNow(ts, t), notified |-> FALSE, confirmed |-> FALSE]
               ELSE old
        r1 == [rec EXCEPT !.last_ts = ts]
        r2 == IF notified = "keep" THEN r1 ELSE [r1 EXCEPT !.notified = (notified = "yes")]
    IN  IF confirmed = "keep" THEN r2 ELSE [r2 EXCEPT !.confirmed = (confirmed = "yes")]

YesNo(b) == IF b THEN "yes" ELSE "no"

\* mark_btc on the map: store the record, then prune_state
MarkBtc(seen, key, ts, notified, confirmed, t) ==
    PruneState([seen EXCEPT ![key] = MarkedRec(seen[key], ts, notified, confirmed, t)], t)

\* the keys a run of prune_state deletes
Pruned(seen, t) == {k \in BtcKeys : seen[k] # NoRec /\ PruneState(seen, t)[k] = NoRec}

\* ------------------------------------------------------------ the state file
STATE_FILE == "last_seen.json"

\* the temp file is the file itself: save_state writes STATE_FILE in place
TmpOfInPlace(path) == path

\* tmp = STATE_FILE + ".tmp"
TmpOf(path) == path \o ".tmp"

Paths == {STATE_FILE, TmpOf(STATE_FILE)}

\* a file: missing, or the JSON text of data of which written pieces out of
\* Chunks are in the file
NoFile == [missing |-> TRUE]
Partial(data, n) == [data |-> data, written |-> n]
Complete(data) == Partial(data, Chunks)

\* the dict STATE (STATE is a reserved word)
StateOf(e, t, b, u) == [eth_last |-> e, tron_last |-> t, btc_seen |-> b, updated_at |-> u]
TheState == StateOf(eth_last, tron_last, btc_seen, updated_at)

\* os.replace(src, dst)
Replace(fs, src, dst) ==
    [p \in DOMAIN fs |-> IF p = dst THEN fs[src] ELSE IF p = src THEN NoFile ELSE fs[p]]

\* save_state run to its end without an exception: the temp file is written
\* and moved over STATE_FILE
SaveState(d, state) ==
    LET tmp == TmpOf(STATE_FILE)
        dumped == [d.fs EXCEPT ![tmp] = Complete(state)]
    IN  [d EXCEPT !.fs = Replace(dumped, tmp, STATE_FILE)]

\* _state_default at time t
StateDefault(t) ==
    StateOf([a \in EthAddrs |-> NoHash], [a \in TronAddrs |-> NoHash],
            [k \in BtcKeys |-> NoRec], t)

\* a btc_seen value in the old format: the integer timestamp ts
OldEntry(ts) == [old_ts |-> ts]
IsOld(v) == DOMAIN v = {"old_ts"}

\* a JSON text that is not an object (a list, a number, null)
NonDict == [nondict |-> TRUE]

\* load_state, the loop over s["btc_seen"]: an integer becomes a record that
\* counts as notified and confirmed
Migrate(seen) ==
    [k \in DOMAIN seen |->
        IF IsOld(seen[k])
        THEN [last_ts |-> seen[k].old_ts, notified |-> TRUE, confirmed |-> TRUE]
        ELSE seen[k]]

\* load_state at time t: the dict of the file with its old entries migrated,
\* or the default when the file is missing, json.load raises on it or its
\* text is not an object
LoadState(file, t) ==
    IF file = NoFile \/ file.written < Chunks \/ file.data = NonDict
    THEN StateDefault(t)
    ELSE [file.data EXCEPT !.btc_seen = Migrate(@)]

\* ------------------------------------------------------------ one step's effects
\* acc collects what the body of the loop does for one future: the map, the
\* messages handed to send_message, and what its mark_btc calls did: the keys
\* prune_state deleted (removed), the keys stored with notified=False
\* (absorbed) and with notified=True (fresh), and the keys whose stored record
\* went from confirmed=True to confirmed=False in one call (unconfirmed).
Acc(seen) == [seen |-> seen, out |-> <<>>, marks |-> 0, removed |-> {},
              absorbed |-> {}, fresh |-> {}, unconfirmed |-> {}]

\* a message, by what it reports; conf and time are the Status and Time lines
\* of a BTC message (the Time line of an ETH or TRON message is not modelled)
Msg(kind, chain, addr, id, conf, time) ==
    [kind |-> kind, chain |-> chain, addr |-> addr, id |-> id, conf |-> conf, time |-> time]

NoTime == 0 - 1

Send(acc, msg) == [acc EXCEPT !.out = Append(@, msg)]

DoMarkBtc(acc, addr, txid, ts, notified, confirmed, t) ==
    LET key == <<addr, txid>>
        after == MarkedRec(acc.seen[key], ts, notified, confirmed, t)
        stored == [acc.seen EXCEPT ![key] = after]
        before == acc.seen[key]
    IN  [seen |-> MarkBtc(acc.seen, key, ts, notified, confirmed, t),
         out |-> acc.out,
         marks |-> acc.marks + 1,
         removed |-> acc.removed \cup Pruned(stored, t),
         absorbed |-> acc.absorbed \cup (IF notified = "no" THEN {key} ELSE {}),
         fresh |-> acc.fresh \cup (IF notified = "yes" THEN {key} ELSE {}),
         unconfirmed |-> acc.unconfirmed \cup
             (IF before # NoRec /\ before.confirmed /\ ~after.confirmed
              THEN {key} ELSE {})]

\* main(), BTC branch 1) with BTC_ONLY_LATEST: the newest entry
NotifyNewest(acc, addr, txs, price, t) ==
    LET newest == txs[1]
        rec == acc.seen[<<addr, newest.hash>>]
        a1 == IF newest.amount * price >= MIN_USD_THRESHOLD
              THEN Send(acc, Msg("incoming", "BTC", addr, newest.hash,
                                 newest.confirmed, newest.time))
              ELSE acc
    IN  IF rec = NoRec \/ ~rec.notified
        THEN DoMarkBtc(a1, addr, newest.hash, newest.time, "yes",
                       YesNo(newest.confirmed), t)
        ELSE acc

\* main(), BTC branch 1) with DROP_BTC_BACKLOG: for old in txs[1:]
RECURSIVE DropBacklog(_, _, _, _, _)
DropBacklog(acc, addr, txs, i, t) ==
    IF i > Len(txs) THEN acc
    ELSE DropBacklog(DoMarkBtc(acc, addr, txs[i].hash, txs[i].time, "no",
                               YesNo(txs[i].confirmed), t),
                     addr, txs, i + 1, t)

\* main(), BTC branch 1) without BTC_ONLY_LATEST: for tx in txs
RECURSIVE NotifyAll(_, _, _, _, _, _)
NotifyAll(acc, addr, txs, i, price, t) ==
    IF i > Len(txs) THEN acc
    ELSE LET tx == txs[i]
             rec == acc.seen[<<addr, tx.hash>>]
             a1 == IF tx.amount * price >= MIN_USD_THRESHOLD
                   THEN Send(acc, Msg("incoming", "BTC", addr, tx.hash,
                                      tx.confirmed, tx.time))
                   ELSE acc
             a2 == IF rec # NoRec /\ rec.notified
                   THEN acc
                   ELSE DoMarkBtc(a1, addr, tx.hash, tx.time, "yes",
                                  YesNo(tx.confirmed), t)
         IN  NotifyAll(a2, addr, txs, i + 1, price, t)

\* main(), BTC branch 2) with BTC_CONFIRM_UPDATE: for tx in txs[:5]
ConfirmScan == 5

RECURSIVE ConfirmUpdates(_, _, _, _, _)
ConfirmUpdates(acc, addr, txs, i, t) ==
    IF i > Len(txs) \/ i > ConfirmScan THEN acc
    ELSE LET tx == txs[i]
             rec == acc.seen[<<addr, tx.hash>>]
             a1 == IF rec # NoRec /\ rec.notified /\ ~rec.confirmed /\ tx.confirmed
                   THEN DoMarkBtc(Send(acc, Msg("confirmed", "BTC", addr, tx.hash,
                                                TRUE, tx.time)),
                                  addr, tx.hash, tx.time, "keep", "yes", t)
                   ELSE acc
         IN  ConfirmUpdates(a1, addr, txs, i + 1, t)

\* main(), the whole BTC branch for a non-empty result
ProcessBtc(seen, c, addr, txs, price, t) ==
    LET a0 == Acc(seen)
        a1 == IF c.BTC_ONLY_LATEST
              THEN LET n == NotifyNewest(a0, addr, txs, price, t)
                   IN  IF c.DROP_BTC_BACKLOG /\ Len(txs) > 1
                       THEN DropBacklog(n, addr, txs, 2, t)
                       ELSE n
              ELSE NotifyAll(a0, addr, txs, 1, price, t)
    IN  IF c.BTC_CONFIRM_UPDATE THEN ConfirmUpdates(a1, addr, txs, 1, t) ELSE a1

\* ------------------------------------------------------------ price cache
Symbols == {"ETHUSDT", "BTCUSDT"}
Quotes == {1}

\* get_price whose except branch drops the entry it could not refresh and
\* returns 0
GetPriceEvicts(cache, symbol, fetched, t) ==
    IF cache[symbol] # NoPrice /\ t - cache[symbol][2] < PRICE_CACHE_TTL
    THEN [val |-> cache[symbol][1], cache |-> cache, asked |-> FALSE]
    ELSE IF fetched # <<>>
         THEN [val |-> fetched[1], cache |-> [cache EXCEPT ![symbol] = <<fetched[1], t>>],
               asked |-> TRUE]
         ELSE [val |-> 0, cache |-> [cache EXCEPT ![symbol] = NoPrice], asked |-> TRUE]

\* get_price: the value returned, the cache afterwards and whether the HTTP
\* request was made; fetched is the outcome of the request (a quote, or <<>>
\* when it fails)
GetPrice(cache, symbol, fetched, t) ==
    IF cache[symbol] # NoPrice /\ t - cache[symbol][2] < PRICE_CACHE_TTL
    THEN [val |-> cache[symbol][1], cache |-> cache, asked |-> FALSE]
    ELSE IF fetched # <<>>
         THEN [val |-> fetched[1], cache |-> [cache EXCEPT ![symbol] = <<fetched[1], t>>],
               asked |-> TRUE]
         ELSE [val |-> IF cache[symbol] # NoPrice THEN cache[symbol][1] ELSE 0,
               cache |-> cache, asked |-> TRUE]

\* the outcomes of a request to the price service; the two requests of a tick
\* go to the same service and are taken to fare alike
Fetched == (IF env.price_fails THEN {<<>>} ELSE {}) \cup {<<q>> : q \in Quotes}

\* ------------------------------------------------------------ history
\* the outcome of each send_message call of a step: TRUE when the post succeeds
Deliveries(out) == {oks \in [1..Len(out) -> BOOLEAN] :
                        env.sink_fails \/ \A i \in 1..Len(out) : oks[i]}

Outbox(out, oks) == [i \in 1..Len(out) |->
    [kind |-> out[i].kind, chain |-> out[i].chain, addr |-> out[i].addr,
     id |-> out[i].id, conf |-> out[i].conf, time |-> out[i].time, ok |-> oks[i]]]

Incoming(box) == {i \in 1..Len(box) : box[i].kind = "incoming"}
Confirmations(box) == {i \in 1..Len(box) : box[i].kind = "confirmed"}

HistInit ==
    [last |-> "init",          \* the kind of the last step
     failed |-> {},            \* wallets whose fetch failed in this tick
     evaluated |-> {},         \* wallets whose result was evaluated in this tick
     aborted |-> FALSE,        \* an exception reached the except of the while loop
     marked |-> {},            \* <<addr, hash>> recorded by mark_eth / mark_tron
     sentIn |-> {},            \* <<addr, txid, confirmed>> of the BTC incoming messages
     sentConf |-> {},          \* <<addr, txid>> of the BTC confirmed messages
     absorbed |-> {},          \* keys mark_btc stored with notified=False
     sinkFailed |-> {},        \* <<addr, id>> whose incoming message failed to post
     outage |-> {},            \* <<addr, id>> evaluated while no price was known
     lastObs |-> [k \in BtcKeys |-> 0 - 1],  \* clock of the last poll that returned k
     removed |-> {},           \* keys prune_state deleted in the last step
     pruneRan |-> FALSE,       \* prune_state ran in the last step
     unconfirmed |-> {},       \* keys a mark_btc call of the last step un-confirmed
     outageNow |-> {},         \* the part of outage the last step added
     fetchErr |-> {},          \* wallets of the last step's result with a failed request
     fut |-> "none",           \* the future the last step took from as_completed
     dups |-> {},              \* keys the last step re-observed as duplicates
     legacy |-> {},            \* keys load_state found in the old format
     asked |-> {},             \* symbols the last step requested from the price service
     refused |-> {},           \* the part of asked whose request failed
     polls |-> 0,              \* non-empty BTC results the loop has consumed
     scen |-> [stage |-> "none", t1 |-> "none", t2 |-> "none"]]
                               \* progress of the two-poll scenario

\* the history after a step that only moves the control
HistStep(kind, a) ==
    [hist EXCEPT !.last = kind, !.removed = {}, !.pruneRan = FALSE,
                 !.unconfirmed = {}, !.outageNow = {}, !.fetchErr = {}, !.fut = "none",
                 !.dups = {}, !.asked = {}, !.refused = {}]

\* ------------------------------------------------------------ start
\* the module is loaded with the file found at STATE_FILE: STATE = load_state()
InitFrom(deployments, files) ==
    /\ pc = "boot"
    /\ now \in Times \ {0}
    /\ tick = 0
    /\ \E d \in deployments : watch = d[1] /\ cfg = d[2] /\ env = d[3]
    /\ price_cache = [s \in Symbols |-> NoPrice]
    /\ eth_price = 0
    /\ btc_price = 0
    /\ futures = {}
    /\ workers = {}
    /\ \E file \in files :
         /\ disk = [fs |-> [p \in Paths |-> IF p = STATE_FILE THEN file ELSE NoFile],
                    at |-> "idle", old |-> NoFile, new |-> NoFile]
         /\ hist = [HistInit EXCEPT !.legacy =
                       IF file = NoFile \/ file.written < Chunks \/ file.data = NonDict
                       THEN {}
                       ELSE {k \in BtcKeys : IsOld(file.data.btc_seen[k])}]
         /\ \E st \in {LoadState(file, now)} :
              /\ eth_last = st.eth_last
              /\ tron_last = st.tron_last
              /\ btc_seen = st.btc_seen
              /\ updated_at = st.updated_at
    /\ outbox = <<>>
    /\ boot_todo = IF cfg.BOOTSTRAP_ON_START THEN Wallets ELSE {}

\* a first start: there is no state file
InitWith(deployments) == InitFrom(deployments, {NoFile})

Init == InitWith(Deployments)

\* ------------------------------------------------------------ bootstrap
\* the wallets the three loops of bootstrap_mark_latest visit next
BootNext ==
    IF boot_todo \cap ETH_WALLETS # {} THEN boot_todo \cap ETH_WALLETS
    ELSE IF boot_todo \cap BTC_WALLETS # {} THEN boot_todo \cap BTC_WALLETS
    ELSE boot_todo

BootFrame ==
    UNCHANGED <<now, tick, cfg, watch, env, price_cache, eth_price, btc_price, futures, workers>>

\* the files after the save_state of mark_eth(a, id) / mark_tron(a, id)
AccountSaved(a, id) ==
    SaveState(disk, StateOf(IF a \in EthAddrs THEN [eth_last EXCEPT ![a] = id] ELSE eth_last,
                            IF a \in TronAddrs THEN [tron_last EXCEPT ![a] = id] ELSE tron_last,
                            PruneState(btc_seen, now), now))

\* the files after the mark_btc calls that left acc
BtcSaved(acc) ==
    IF acc.marks > 0
    THEN SaveState(disk, StateOf(eth_last, tron_last, acc.seen, now))
    ELSE disk

\* mark_eth / mark_tron after the assignment: prune_state, save_state
MarkAccount(a, id, kind) ==
    /\ btc_seen' = PruneState(btc_seen, now)
    /\ updated_at' = now
    /\ disk' = AccountSaved(a, id)
    /\ hist' = [HistStep(kind, a) EXCEPT !.marked = @ \cup {<<a, id>>},
                                         !.removed = Pruned(btc_seen, now),
                                         !.pruneRan = TRUE]

BootEth(a) ==
    /\ pc = "boot" /\ a \in BootNext \cap ETH_WALLETS
    /\ \E res \in EthResults :
         IF res # <<>>
         THEN /\ eth_last' = [eth_last EXCEPT ![a] = res[1].hash]
              /\ MarkAccount(a, res[1].hash, "boot")
         ELSE /\ UNCHANGED <<eth_last, btc_seen, updated_at, disk>>
              /\ hist' = HistStep("boot", a)
    /\ boot_todo' = boot_todo \ {a}
    /\ outbox' = <<>>
    /\ UNCHANGED <<pc, tron_last>>
    /\ BootFrame

BootTron(a) ==
    /\ pc = "boot" /\ a \in BootNext \cap TRON_WALLETS
    /\ \E res \in TronResults :
         IF res # <<>>
         THEN /\ tron_last' = [tron_last EXCEPT ![a] = res[1].transaction_id]
              /\ MarkAccount(a, res[1].transaction_id, "boot")
         ELSE /\ UNCHANGED <<tron_last, btc_seen, updated_at, disk>>
              /\ hist' = HistStep("boot", a)
    /\ boot_todo' = boot_todo \ {a}
    /\ outbox' = <<>>
    /\ UNCHANGED <<pc, eth_last>>
    /\ BootFrame

\* the history after the mark_btc calls of a step that polled txs for wallet a
Observed(a, txs) == {<<a, txs[i].hash>> : i \in 1..Len(txs)}

HistBtc(kind, a, txs, acc) ==
    [HistStep(kind, a) EXCEPT
        !.absorbed = @ \cup acc.absorbed,
        !.unconfirmed = acc.unconfirmed,
        !.lastObs = [k \in BtcKeys |-> IF k \in Observed(a, txs) THEN now ELSE @[k]],
        !.removed = acc.removed,
        !.pruneRan = (acc.marks > 0)]

BootBtc(a) ==
    /\ pc = "boot" /\ a \in BootNext \cap BTC_WALLETS
    /\ \E txs \in BtcResults :
         \E acc \in {IF txs # <<>>
                      THEN DoMarkBtc(Acc(btc_seen), a, txs[1].hash, txs[1].time, "no",
                                     YesNo(txs[1].confirmed), now)
                      ELSE Acc(btc_seen)} :
             /\ btc_seen' = acc.seen
             /\ updated_at' = IF txs # <<>> THEN now ELSE updated_at
             /\ disk' = BtcSaved(acc)
             /\ hist' = HistBtc("boot", a, txs, acc)
    /\ boot_todo' = boot_todo \ {a}
    /\ outbox' = <<>>
    /\ UNCHANGED <<pc, eth_last, tron_last>>
    /\ BootFrame

\* ------------------------------------------------------------ the main loop
StoreFrame == UNCHANGED <<eth_last, tron_last, btc_seen, updated_at, disk>>

\* top of the while loop: the two get_price calls, then the submits
TickStart ==
    /\ pc = "boot" \/ pc = "tick"
    /\ boot_todo = {}
    /\ tick < MaxTicks
    /\ \E f \in Fetched :
         LET e == GetPrice(price_cache, "ETHUSDT", f, now)
             b == GetPrice(e.cache, "BTCUSDT", f, now)
         IN  /\ eth_price' = e.val
             /\ btc_price' = b.val
             /\ price_cache' = b.cache
             /\ hist' = [HistStep("start", "none") EXCEPT
                            !.failed = {}, !.evaluated = {}, !.aborted = FALSE,
                            !.asked = (IF e.asked THEN {"ETHUSDT"} ELSE {})
                                      \cup (IF b.asked THEN {"BTCUSDT"} ELSE {}),
                            !.refused = IF f # <<>> THEN {}
                                        ELSE (IF e.asked THEN {"ETHUSDT"} ELSE {})
                                             \cup (IF b.asked THEN {"BTCUSDT"} ELSE {})]
    /\ futures' = DOMAIN FuturesMap
    /\ workers' = workers \cup {<<tick + 1, f>> : f \in DOMAIN FuturesMap}
    /\ pc' = "fanin"
    /\ tick' = tick + 1
    /\ outbox' = <<>>
    /\ StoreFrame
    /\ UNCHANGED <<now, cfg, watch, env, boot_todo>>

TickFrame ==
    UNCHANGED <<now, tick, cfg, watch, env, price_cache, eth_price, btc_price, boot_todo, workers>>

\* continue: as_completed yields the next future
Continue(a) ==
    /\ pc' = pc
    /\ futures' = futures \ {a}

\* an exception leaves the for loop and nothing catches it: the main thread
\* ends (the while loop without its try)
LoopErrorFatal(a) ==
    /\ pc' = "stopped"
    /\ futures' = {}
    /\ outbox' = <<>>
    /\ hist' = [HistStep("error", a) EXCEPT !.aborted = TRUE, !.fut = a]
    /\ StoreFrame

\* an exception leaves the for loop and is caught by the except of the while
\* loop; the futures not yet yielded are dropped with the local map
LoopError(a) ==
    /\ pc' = "sleep"
    /\ futures' = {}
    /\ outbox' = <<>>
    /\ hist' = [HistStep("error", a) EXCEPT !.aborted = TRUE, !.fut = a]
    /\ StoreFrame

\* a step that skips the result of wallet a
Skip(a, kind, failure) ==
    /\ Continue(a)
    /\ outbox' = <<>>
    /\ hist' = IF failure
               THEN [HistStep(kind, a) EXCEPT !.failed = @ \cup {a}, !.fut = a,
                                              !.fetchErr = IF env.bad_data THEN {a} ELSE {}]
               ELSE [HistStep(kind, a) EXCEPT !.evaluated = @ \cup {a}, !.fut = a]
    /\ StoreFrame

\* f.result() raises and the handler leaves the for loop instead of going on
\* to the next future (break for continue)
FutureRaisedBreaks(a) ==
    /\ pc = "fanin" /\ a \in futures /\ Done(a)
    /\ env.bad_data
    /\ pc' = "sleep"
    /\ futures' = {}
    /\ outbox' = <<>>
    /\ hist' = [HistStep("raised", a) EXCEPT !.failed = @ \cup {a}, !.fut = a]
    /\ StoreFrame
    /\ TickFrame

\* f.result() raises: except Exception ... continue
FutureRaised(a) ==
    /\ pc = "fanin" /\ a \in futures /\ Done(a)
    /\ env.bad_data
    /\ Skip(a, "raised", TRUE)
    /\ TickFrame

\* the history after a step that sent box for an account-based transfer
HistSent(h, box, a, id, noPrice) ==
    [h EXCEPT !.evaluated = @ \cup {a},
              !.sinkFailed = @ \cup {<<a, id>> : i \in {j \in Incoming(box) : ~box[j].ok}},
              !.outage = @ \cup (IF noPrice THEN {<<a, id>>} ELSE {}),
              !.outageNow = IF noPrice THEN {<<a, id>>} ELSE {}]

\* the ETH branch of the loop body
ConsumeEth(f) ==
    /\ pc = "fanin" /\ f \in futures /\ Done(f)
    /\ FuturesMap[f].chain = "ETH"
    /\ TickFrame
    /\ \E a \in {FuturesMap[f].addr}, res \in EthResults :
         IF res = <<>> THEN Skip(f, "eth", TRUE)
         ELSE IF eth_last[a] = res[1].hash THEN Skip(f, "eth", FALSE)
         ELSE IF ~res[1].parsable THEN env.bad_data /\ LoopError(f)
         ELSE LET tx == res[1]
                  out == IF tx.value * eth_price >= MIN_USD_THRESHOLD
                         THEN <<Msg("incoming", "ETH", a, tx.hash, TRUE, NoTime)>>
                         ELSE <<>>
              IN  \E oks \in Deliveries(out) :
                    /\ outbox' = Outbox(out, oks)
                    /\ eth_last' = [eth_last EXCEPT ![a] = tx.hash]
                    /\ btc_seen' = PruneState(btc_seen, now)
                    /\ updated_at' = now
                    /\ disk' = AccountSaved(a, tx.hash)
                    /\ hist' = HistSent([HistStep("eth", a) EXCEPT
                                            !.fut = f,
                                            !.marked = @ \cup {<<a, tx.hash>>},
                                            !.removed = Pruned(btc_seen, now),
                                            !.pruneRan = TRUE],
                                        Outbox(out, oks), a, tx.hash,
                                        price_cache["ETHUSDT"] = NoPrice)
                    /\ Continue(f)
                    /\ UNCHANGED tron_last

\* the TRON branch of the loop body
ConsumeTron(f) ==
    /\ pc = "fanin" /\ f \in futures /\ Done(f)
    /\ FuturesMap[f].chain = "TRON"
    /\ TickFrame
    /\ \E a \in {FuturesMap[f].addr}, res \in TronResults :
         IF res = <<>> THEN Skip(f, "tron", TRUE)
         ELSE IF tron_last[a] = res[1].transaction_id THEN Skip(f, "tron", FALSE)
         ELSE IF ~res[1].parsable THEN env.bad_data /\ LoopError(f)
         ELSE LET tx == res[1]
                  out == IF tx.value > 0
                         THEN <<Msg("incoming", "TRON", a, tx.transaction_id, TRUE, NoTime)>>
                         ELSE <<>>
              IN  \E oks \in Deliveries(out) :
                    /\ outbox' = Outbox(out, oks)
                    /\ tron_last' = [tron_last EXCEPT ![a] = tx.transaction_id]
                    /\ btc_seen' = PruneState(btc_seen, now)
                    /\ updated_at' = now
                    /\ disk' = AccountSaved(a, tx.transaction_id)
                    /\ hist' = HistSent([HistStep("tron", a) EXCEPT
                                            !.fut = f,
                                            !.marked = @ \cup {<<a, tx.transaction_id>>},
                                            !.removed = Pruned(btc_seen, now),
                                            !.pruneRan = TRUE],
                                        Outbox(out, oks), a, tx.transaction_id, FALSE)
                    /\ Continue(f)
                    /\ UNCHANGED eth_last

\* the two-poll scenario: the first non-empty BTC result the loop consumes is
\* [T1, T2], both unconfirmed and both worth the threshold; the next one is
\* [T1] confirmed
Worth(tx, price) == tx.amount * price >= MIN_USD_THRESHOLD

ScenNext(sc, polls, txs, price) ==
    IF polls = 0 /\ Len(txs) = 2 /\ ~txs[1].confirmed /\ ~txs[2].confirmed
       /\ Worth(txs[1], price) /\ Worth(txs[2], price)
    THEN [stage |-> "first", t1 |-> txs[1].hash, t2 |-> txs[2].hash]
    ELSE IF sc.stage = "first" /\ Len(txs) = 1 /\ txs[1].hash = sc.t1 /\ txs[1].confirmed
    THEN [sc EXCEPT !.stage = "second"]
    ELSE [sc EXCEPT !.stage = "off"]

HistBtcSent(h, box, a, fresh, noPrice, txs, price) ==
    [h EXCEPT !.evaluated = @ \cup {a},
              !.sentIn = @ \cup {<<a, box[i].id, box[i].conf>> : i \in Incoming(box)},
              !.sentConf = @ \cup {<<a, box[i].id>> : i \in Confirmations(box)},
              !.sinkFailed = @ \cup {<<a, box[i].id>> : i \in {j \in Incoming(box) : ~box[j].ok}},
              !.outage = @ \cup (IF noPrice THEN fresh ELSE {}),
              !.outageNow = IF noPrice THEN fresh ELSE {},
              !.polls = @ + 1,
              !.scen = ScenNext(@, h.polls, txs, price)]

\* get_btc_from_mempool when its second request raises: the entries of the
\* first one, unconfirmed and stamped with the time of the fetch
MempoolPart(t) ==
    {txs \in BtcResults : \A i \in 1..Len(txs) : ~txs[i].confirmed /\ txs[i].time = t}

\* get_latest_btc_txs when a request of the first provider raised: the entries
\* that provider had collected or, when it has none, the list of the other one
AfterProviderError(t) == (MempoolPart(t) \ {<<>>}) \cup BtcResults

\* whether a request failed while the result txs was fetched
ProviderErrors(txs, t) ==
    {FALSE} \cup (IF env.bad_data /\ txs \in AfterProviderError(t) THEN {TRUE} ELSE {})

\* the entries of txs that repeat what is stored for wallet a: a record with
\* notified set and the confirmed flag of the entry
Duplicates(seen, a, txs) ==
    {<<a, txs[i].hash>> : i \in {j \in 1..Len(txs) :
        LET rec == seen[<<a, txs[j].hash>>]
        IN  rec # NoRec /\ rec.notified /\ rec.confirmed = txs[j].confirmed}}

\* the BTC branch of the loop body
ConsumeBtc(f) ==
    /\ pc = "fanin" /\ f \in futures /\ Done(f)
    /\ FuturesMap[f].chain = "BTC"
    /\ TickFrame
    /\ \E a \in {FuturesMap[f].addr}, txs \in BtcResults :
         IF txs = <<>> THEN Skip(f, "btc", TRUE)
         ELSE \E acc \in {ProcessBtc(btc_seen, cfg, a, txs, btc_price, now)} :
                  \E oks \in Deliveries(acc.out), err \in ProviderErrors(txs, now) :
                    /\ outbox' = Outbox(acc.out, oks)
                    /\ btc_seen' = acc.seen
                    /\ updated_at' = IF acc.marks > 0 THEN now ELSE updated_at
                    /\ disk' = BtcSaved(acc)
                    /\ hist' = [HistBtcSent(HistBtc("btc", a, txs, acc), Outbox(acc.out, oks),
                                            a, acc.fresh, price_cache["BTCUSDT"] = NoPrice,
                                            txs, btc_price)
                                EXCEPT !.fetchErr = IF err THEN {a} ELSE {}, !.fut = f,
                                       !.dups = Duplicates(btc_seen, a, txs)]
                    /\ Continue(f)
                    /\ UNCHANGED <<eth_last, tron_last>>

\* ex.shutdown(wait=False) after the for loop
EndTick ==
    /\ pc = "fanin" /\ futures = {}
    /\ pc' = "sleep"
    /\ outbox' = <<>>
    /\ hist' = HistStep("end", "none")
    /\ StoreFrame
    /\ UNCHANGED futures
    /\ TickFrame

\* time.sleep(POLL_INTERVAL); the clock moves on
Sleep ==
    /\ pc = "sleep"
    /\ tick < MaxTicks
    /\ \E t \in Times : t >= now /\ now' = t
    /\ pc' = "tick"
    /\ outbox' = <<>>
    /\ hist' = HistStep("sleep", "none")
    /\ StoreFrame
    /\ UNCHANGED <<tick, cfg, watch, env, price_cache, eth_price, btc_price, futures, boot_todo,
                   workers>>

\* a pool thread whose fetch function touches the store before it returns
\* (prune_state and the updated_at stamp of a mark_* call)
WorkerDoneMarks(n, a) ==
    /\ <<n, a>> \in workers
    /\ workers' = workers \ {<<n, a>>}
    /\ outbox' = <<>>
    /\ hist' = HistStep("worker", a)
    /\ btc_seen' = PruneState(btc_seen, now)
    /\ updated_at' = now
    /\ UNCHANGED <<eth_last, tron_last, disk>>
    /\ UNCHANGED <<pc, now, tick, cfg, watch, env, price_cache, eth_price, btc_price, futures,
                   boot_todo>>

\* a pool thread: the fetch function of a submitted task returns (or raises)
\* and the task's future completes; a task whose tick was left by an
\* exception goes on running and returns during the sleep or a later tick
WorkerDone(n, a) ==
    /\ <<n, a>> \in workers
    /\ workers' = workers \ {<<n, a>>}
    /\ outbox' = <<>>
    /\ hist' = HistStep("worker", a)
    /\ StoreFrame
    /\ UNCHANGED <<pc, now, tick, cfg, watch, env, price_cache, eth_price, btc_price, futures,
                   boot_todo>>

Next ==
    \/ \E a \in EthAddrs : BootEth(a)
    \/ \E a \in BtcAddrs : BootBtc(a)
    \/ \E a \in TronAddrs : BootTron(a)
    \/ TickStart
    \/ \E n \in 1..MaxTicks, a \in Addrs : WorkerDone(n, a)
    \/ \E f \in Addrs : FutureRaised(f)
    \/ \E f \in Addrs : ConsumeEth(f)
    \/ \E f \in Addrs : ConsumeBtc(f)
    \/ \E f \in Addrs : ConsumeTron(f)
    \/ EndTick
    \/ Sleep

Spec == Init /\ [][Next]_vars

\* ------------------------------------------------------------ properties
\* the incoming messages for BTC transfers among the messages of a step
BtcIncoming(box) == {i \in Incoming(box) : box[i].chain = "BTC"}
AccountIncoming(box) == {i \in Incoming(box) : box[i].chain # "BTC"}

\* C1: at most one new-incoming message per BTC (address, transfer_id) and
\* confirmed flag: no step dispatches a 'BTC Incoming Transaction' message for
\* a transfer and flag for which an earlier step already dispatched one.
C1_AtMostOneIncomingBtc ==
    [][\A i \in BtcIncoming(outbox') :
          <<outbox'[i].addr, outbox'[i].id, outbox'[i].conf>> \notin hist.sentIn]_vars

\* C2: once mark_eth / mark_tron has recorded a hash for an address, no later
\* step dispatches a new-incoming message for that address and hash, whatever
\* was recorded in between.
C2_AtMostOneIncomingAccount ==
    [][\A i \in AccountIncoming(outbox') :
          <<outbox'[i].addr, outbox'[i].id>> \notin hist.marked]_vars

\* C3: monotonic confirmation: no mark_btc call turns a stored record with
\* confirmed=True into one with confirmed=False.
C3_MonotonicConfirmation == hist.unconfirmed = {}

\* C4: cutoff exclusion: there is a timestamp floor above the smallest
\* timestamp such that no transfer older than it is notified or stored.  (The
\* program reads no cutoff setting; the property is stated for any value a
\* cutoff could have.)
C4_CutoffExclusion ==
    \E c \in Times \ {0} :
        /\ \A i \in 1..Len(outbox) : outbox[i].chain = "BTC" => outbox[i].time >= c
        /\ \A k \in BtcKeys : btc_seen[k] # NoRec => btc_seen[k].last_ts >= c

\* C5: pruning by the time of the last poll that returned the transfer: after
\* a step in which prune_state ran, every remaining record was last returned
\* by a poll within the retention window, and every record prune_state
\* removed was last returned by a poll before the window.
C5_PruneByLastSeen ==
    hist.pruneRan =>
        /\ \A k \in BtcKeys : btc_seen[k] # NoRec => now - hist.lastObs[k] <= SEEN_TTL
        /\ \A k \in hist.removed : now - hist.lastObs[k] > SEEN_TTL

TransferIds == EthHashes \cup TronIds \cup BtcTxIds

\* a transfer the store holds as seen: the last hash of an account-based
\* address, or a btc_seen record with notified=True
Recorded(a, id) ==
    IF a \in EthAddrs THEN eth_last[a] = id
    ELSE IF a \in TronAddrs THEN tron_last[a] = id
    ELSE /\ id \in BtcTxIds
         /\ btc_seen[<<a, id>>] # NoRec
         /\ btc_seen[<<a, id>>].notified

\* C6: isolation of a fetch failure: the step that handles the failed fetch of
\* a wallet (an empty result, or a future that raised) leaves the store, the
\* prices and the other futures as they are and sends nothing, for every order
\* in which the futures complete; and when the for loop of a tick ends without
\* a processing exception, every watched wallet has been either evaluated or
\* found failed, so no wallet was left out because another one failed.
C6_Isolation ==
    [][/\ \A a \in hist'.failed \ hist.failed :
             /\ pc' = "fanin"
             /\ futures' = futures \ {a}
             /\ <<eth_last', tron_last', btc_seen'>> = <<eth_last, tron_last, btc_seen>>
             /\ <<eth_price', btc_price'>> = <<eth_price, btc_price>>
             /\ outbox' = <<>>
       /\ (pc = "fanin" /\ pc' = "sleep" /\ ~hist'.aborted) =>
              hist'.failed \cup hist'.evaluated = watch]_vars

\* a tick in which one fetch failed and a wallet consumed after it was
\* evaluated and notified
C6_Witness ==
    /\ hist.failed # {}
    /\ hist.last \in {"eth", "btc", "tron"}
    /\ hist.evaluated # {}
    /\ outbox # <<>>

\* C7: the only-latest two-poll scenario with BTC_ONLY_LATEST, DROP_BTC_BACKLOG
\* and BTC_CONFIRM_UPDATE on: after the poll [T1, T2] (both unconfirmed, both
\* worth the threshold) exactly one message was sent, the new-incoming one for
\* T1, and T2 is in the store un-notified; after the following poll
\* [T1 confirmed] exactly one message was sent, the confirmation of T1.
C7_OnlyLatestScenario ==
    (/\ hist.last = "btc"
     /\ cfg.BTC_ONLY_LATEST /\ cfg.DROP_BTC_BACKLOG /\ cfg.BTC_CONFIRM_UPDATE) =>
        /\ hist.scen.stage = "first" =>
              /\ Len(outbox) = 1
              /\ outbox[1].kind = "incoming" /\ outbox[1].id = hist.scen.t1
              /\ \E a \in BtcAddrs :
                    /\ btc_seen[<<a, hist.scen.t2>>] # NoRec
                    /\ ~btc_seen[<<a, hist.scen.t2>>].notified
        /\ hist.scen.stage = "second" =>
              /\ Len(outbox) = 1
              /\ outbox[1].kind = "confirmed" /\ outbox[1].id = hist.scen.t1

\* C8: silent absorption: no step dispatches a new-incoming message for a BTC
\* transfer that a mark_btc call of bootstrap_mark_latest or of the backlog
\* loop, in this step or an earlier one, stored with notified=False.
C8_SilentAbsorption ==
    [][\A i \in BtcIncoming(outbox') :
          <<outbox'[i].addr, outbox'[i].id>> \notin hist'.absorbed]_vars

\* C9: price outage: a transfer evaluated while the cache holds no price of
\* its symbol and the fetch failed is recorded as seen by that step, and no
\* message about it is sent in that step or in any later one.
C9_PriceOutage ==
    [][/\ \A k \in hist'.outageNow : Recorded(k[1], k[2])'
       /\ \A i \in 1..Len(outbox') :
             <<outbox'[i].addr, outbox'[i].id>> \notin hist'.outage]_vars

\* C10: a failed send of a new-incoming message is not propagated and not
\* retried: the step goes on to the next future, the transfer is recorded as
\* seen by that step, and no later step dispatches a new-incoming message for
\* it.
C10_SinkFailureAtMostOnce ==
    [][/\ \A i \in Incoming(outbox') :
             <<outbox'[i].addr, outbox'[i].id>> \notin hist.sinkFailed
       /\ \A a \in EthAddrs \cup BtcAddrs \cup TronAddrs, id \in TransferIds :
             (\E i \in Incoming(outbox') :
                 outbox'[i].addr = a /\ outbox'[i].id = id /\ ~outbox'[i].ok) =>
                 /\ pc' = "fanin"
                 /\ Recorded(a, id)']_vars

\* runs in which processing exceptions can happen, one chain at a time and
\* with two wallets in one tick
Troubled == [Calm EXCEPT !.bad_data = TRUE]

LoopDeployments ==
    ({{"e1"}, {"t1"}, {"b1"}} \X {Defaults} \X {Troubled})
    \cup ({{"e1", "t1"}} \X {NoBootstrap} \X {Troubled})

\* the main thread always runs: a sleep returns, a request times out
LiveSpec == InitWith(LoopDeployments) /\ [][Next]_vars /\ WF_vars(Next)

\* C11: one bad tick never stops the loop: the step in which an exception
\* leaves the for loop puts the main thread at the sleep of the same
\* iteration (it is caught at the tick boundary), and from every tick, aborted
\* or not, the next tick eventually starts.
C11_LoopNeverStops ==
    /\ [][(hist'.aborted /\ ~hist.aborted) => (pc' = "sleep" /\ tick' = tick)]_vars
    /\ \A n \in 1..(MaxTicks - 1) :
          (tick = n) ~> (tick = n + 1 /\ pc = "fanin" /\ ~hist.aborted)

\* an exception was caught in a tick that has a successor
C11_Witness == hist.aborted /\ pc = "sleep" /\ tick < MaxTicks

\* C12: malformed data is skipped per transfer: the step that meets a
\* transfer whose amount cannot be parsed takes only that future out of the
\* tick; the results of the other wallets are still to be consumed.
C12_MalformedSkippedPerTransfer ==
    [][hist'.last = "error" => Cardinality(futures \ futures') = 1]_vars

\* C13: a provider fetch error mutates no state: the step that consumes the
\* result of a wallet for which a provider request failed sends no message
\* about that wallet and leaves its last-seen entry and its btc_seen records
\* as they were.
C13_FetchErrorMutatesNothing ==
    [][\A a \in hist'.fetchErr :
          /\ \A i \in 1..Len(outbox') : outbox'[i].addr # a
          /\ a \in EthAddrs => eth_last'[a] = eth_last[a]
          /\ a \in TronAddrs => tron_last'[a] = tron_last[a]
          /\ a \in BtcAddrs =>
                \A id \in BtcTxIds : btc_seen'[<<a, id>>] = btc_seen[<<a, id>>]]_vars

\* ------------------------------------------------------------ save_state in steps
\* save_state followed statement by statement, in a process that can die at
\* any point and be started again; disk.old and disk.new are the contents of
\* STATE_FILE when the save in progress began and the state it is saving
SaveDeployments == {<<{"e1", "t1"}, NoBootstrap, Calm>>}

SaveFrame ==
    UNCHANGED <<pc, now, tick, cfg, watch, env, price_cache, eth_price, btc_price,
                futures, workers, outbox, boot_todo, hist>>

MemoryFrame == UNCHANGED <<eth_last, tron_last, btc_seen, updated_at>>

\* mark_eth / mark_tron up to the open() of save_state: the assignment,
\* prune_state, and the temp file opened for writing (created or truncated)
MarkBegin(a, id) ==
    /\ disk.at \in {"idle", "loaded"}
    /\ a \in watch
    /\ \/ a \in EthAddrs /\ id \in EthHashes
       \/ a \in TronAddrs /\ id \in TronIds
    /\ eth_last' = IF a \in EthAddrs THEN [eth_last EXCEPT ![a] = id] ELSE eth_last
    /\ tron_last' = IF a \in TronAddrs THEN [tron_last EXCEPT ![a] = id] ELSE tron_last
    /\ btc_seen' = PruneState(btc_seen, now)
    /\ updated_at' = now
    /\ disk' = [fs |-> [disk.fs EXCEPT ![TmpOf(STATE_FILE)] = Partial(TheState', 0)],
                at |-> "open",
                old |-> disk.fs[STATE_FILE],
                new |-> Complete(TheState')]
    /\ SaveFrame

\* json.dump writes the next piece of the temp file
SaveWrite ==
    /\ disk.at = "open"
    /\ disk.fs[TmpOf(STATE_FILE)].written < Chunks
    /\ disk' = [disk EXCEPT !.fs[TmpOf(STATE_FILE)].written = @ + 1]
    /\ MemoryFrame /\ SaveFrame

\* the with block is left and os.replace moves the temp file over STATE_FILE
SaveReplace ==
    /\ disk.at = "open"
    /\ disk.fs[TmpOf(STATE_FILE)].written = Chunks
    /\ disk' = [disk EXCEPT !.fs = Replace(@, TmpOf(STATE_FILE), STATE_FILE), !.at = "idle"]
    /\ MemoryFrame /\ SaveFrame

\* an exception inside save_state (the disk is full): printed, nothing else
SaveRaises ==
    /\ disk.at = "open"
    /\ disk' = [disk EXCEPT !.at = "idle"]
    /\ MemoryFrame /\ SaveFrame

\* the process dies, between two saves or inside one
Crash ==
    /\ disk.at \in {"idle", "loaded", "open"}
    /\ disk' = [disk EXCEPT !.at = "down"]
    /\ MemoryFrame /\ SaveFrame

\* the process is started again: STATE = load_state()
Restart ==
    /\ disk.at = "down"
    /\ \E st \in {LoadState(disk.fs[STATE_FILE], now)} :
         /\ eth_last' = st.eth_last
         /\ tron_last' = st.tron_last
         /\ btc_seen' = st.btc_seen
         /\ updated_at' = st.updated_at
    /\ disk' = [disk EXCEPT !.at = "loaded"]
    /\ SaveFrame

SaveNext ==
    \/ \E a \in EthAddrs \cup TronAddrs, id \in EthHashes \cup TronIds : MarkBegin(a, id)
    \/ SaveWrite
    \/ SaveReplace
    \/ SaveRaises
    \/ Crash
    \/ Restart

SaveSpec == InitWith(SaveDeployments) /\ [][SaveNext]_vars

\* C14: crash-safe persistence: at every point of save_state and after a
\* crash at any of them, STATE_FILE is missing (never saved) or holds a
\* complete state, the one it held when the save began or the one being
\* saved; and the state load_state returns after a crash is the state of one
\* of those two files.
C14_CrashSafePersistence ==
    /\ disk.fs[STATE_FILE] \in {disk.old, disk.new}
    /\ disk.fs[STATE_FILE] # NoFile => disk.fs[STATE_FILE].written = Chunks
    /\ disk.at = "loaded" =>
          TheState \in {LoadState(disk.old, now), LoadState(disk.new, now)}

\* the process died in the middle of the temp-file write, with an earlier
\* state saved, and was started again
C14_Witness ==
    /\ disk.at = "loaded"
    /\ disk.fs[STATE_FILE] # NoFile
    /\ disk.fs[TmpOf(STATE_FILE)] # NoFile
    /\ disk.fs[TmpOf(STATE_FILE)].written \in 1..(Chunks - 1)
    /\ disk.new # disk.old
    /\ disk.new.data.eth_last # disk.fs[STATE_FILE].data.eth_last

\* C15: at most one confirmation update per transfer, at most two messages in
\* all: a step dispatches 'BTC Transaction Confirmed' for a transfer only if
\* none was dispatched before, the stored record had notified=True and
\* confirmed=False and the observed transfer is confirmed; and it dispatches
\* 'BTC Incoming Transaction' for a transfer only if none was dispatched
\* before.
C15_AtMostOneConfirmation ==
    [][/\ \A i \in Confirmations(outbox') :
             /\ <<outbox'[i].addr, outbox'[i].id>> \notin hist.sentConf
             /\ outbox'[i].conf
             /\ \E k \in BtcKeys :
                   /\ k = <<outbox'[i].addr, outbox'[i].id>>
                   /\ btc_seen[k] # NoRec
                   /\ btc_seen[k].notified /\ ~btc_seen[k].confirmed
       /\ \A i \in BtcIncoming(outbox'), c \in BOOLEAN :
             <<outbox'[i].addr, outbox'[i].id, c>> \notin hist.sentIn]_vars

\* C16: a tick does not end while a fetch task submitted in it is still
\* running: once the main thread is at the sleep, or past it and about to
\* start the next tick, no task of the tick it left is running, also when
\* the tick was left by an exception raised while a result was processed.
C16_FanInBarrier ==
    pc \in {"sleep", "tick"} => \A w \in workers : w[1] # tick

\* C17: a result is evaluated with the tuple of the address it was fetched
\* for, and is consumed at most once: the step that takes a future from
\* as_completed takes one that was pending and not taken before in the tick,
\* sends messages only for that future's own address and chain, and records
\* or updates store entries only of that address.
C17_TaggedResults ==
    [][hist'.fut # "none" =>
          /\ hist'.fut \in futures /\ hist'.fut \notin futures'
          /\ hist'.fut \notin hist.evaluated \cup hist.failed
          /\ \A i \in 1..Len(outbox') :
                outbox'[i].addr = hist'.fut /\ outbox'[i].chain = ChainOf(hist'.fut)
          /\ \A a \in EthAddrs : eth_last'[a] # eth_last[a] => a = hist'.fut
          /\ \A a \in TronAddrs : tron_last'[a] # tron_last[a] => a = hist'.fut
          /\ \A k \in BtcKeys :
                (btc_seen'[k] # btc_seen[k] /\ btc_seen'[k] # NoRec) => k[1] = hist'.fut]_vars

C17_Witness ==
    /\ pc = "fanin" /\ hist.fut = "t1" /\ "e1" \in hist.evaluated
    /\ outbox # <<>> /\ eth_last["e1"] # NoHash /\ tron_last["t1"] # NoHash

\* C18: every mutation of the state store, of the state file and of the price
\* cache is a step of the main thread: a step of a pool thread, one left over
\* from an earlier tick included, changes none of them.
C18_SingleWriter ==
    [][workers' # workers /\ workers' \subseteq workers =>
          UNCHANGED <<eth_last, tron_last, btc_seen, updated_at, price_cache, disk>>]_vars

C18_Witness ==
    /\ hist.last = "worker" /\ pc = "fanin" /\ futures # {}
    /\ \E w \in workers : w[1] < tick
    /\ \E a \in EthAddrs \cup TronAddrs : a \in hist.evaluated

\* C19: a duplicate observation is inert: when a tick's result lists a BTC
\* transfer whose stored record has notified set and the confirmed flag of
\* the listed entry, as the newest entry or as an older one, the step sends
\* no message for it and the record it leaves has the same notified and
\* confirmed fields.
C19_DuplicatesInert ==
    [][\A k \in hist'.dups :
          /\ \A i \in 1..Len(outbox') : ~(outbox'[i].addr = k[1] /\ outbox'[i].id = k[2])
          /\ btc_seen'[k] # NoRec =>
                /\ btc_seen'[k].notified = btc_seen[k].notified
                /\ btc_seen'[k].confirmed = btc_seen[k].confirmed]_vars

\* C20: get_price makes no request while the cached entry of the symbol is
\* younger than PRICE_CACHE_TTL and returns that entry; when its request
\* fails it returns the last cached price of the symbol and leaves the entry
\* as it was, and returns 0 only when the symbol has no entry; an entry,
\* once cached, is never removed.
C20_PriceCacheRefresh ==
    [][/\ \A s \in Symbols : price_cache[s] # NoPrice => price_cache'[s] # NoPrice
       /\ hist'.last = "start" =>
             \A s \in Symbols :
                LET entry == price_cache[s]
                    young == entry # NoPrice /\ now - entry[2] < PRICE_CACHE_TTL
                    ret == IF s = "ETHUSDT" THEN eth_price' ELSE btc_price'
                IN  /\ young => (s \notin hist'.asked /\ price_cache'[s] = entry
                                 /\ ret = entry[1])
                    /\ ~young => s \in hist'.asked
                    /\ s \in hist'.refused =>
                          /\ price_cache'[s] = entry
                          /\ ret = IF entry # NoPrice THEN entry[1] ELSE 0]_vars

C20_Witness ==
    /\ hist.last = "start" /\ hist.refused = Symbols
    /\ \A s \in Symbols : price_cache[s] # NoPrice /\ now - price_cache[s][2] >= PRICE_CACHE_TTL
    /\ eth_price = price_cache["ETHUSDT"][1] /\ eth_price > 0
    /\ btc_price = price_cache["BTCUSDT"][1]

\* the state files a restart may find: one left by the old version, with
\* integer timestamps under btc_seen, one cut short, one that is not an object
OldSeen == {[k \in BtcKeys |-> IF k[2] = "T1" THEN OldEntry(ts) ELSE NoRec] : ts \in {0, MaxTime}}
LegacyFiles ==
    {Complete(StateOf([a \in EthAddrs |-> NoHash], [a \in TronAddrs |-> NoHash], seen, 0)) :
        seen \in OldSeen}
    \cup {Complete(NonDict), Partial(StateDefault(0), Chunks - 1)}

NotifyAllMode == [NoBootstrap EXCEPT !.BTC_ONLY_LATEST = FALSE]
LegacyDeployments == {{"b1"}} \X {Defaults, NotifyAllMode} \X {Calm}

\* watch lists without the BTC wallet of the old file, started on one old file
MixedDeployments ==
    ({{"e1"}, {"t1"}} \X {Defaults} \X {Calm}) \cup {<<{"e1"}, NoBootstrap, Troubled>>}
MixedFiles ==
    {Complete(StateOf([a \in EthAddrs |-> NoHash], [a \in TronAddrs |-> NoHash],
                      [k \in BtcKeys |-> OldEntry(MaxTime)], 0))}

LegacySpec ==
    /\ InitFrom(LegacyDeployments, LegacyFiles) \/ InitFrom(MixedDeployments, MixedFiles)
    /\ [][Next]_vars

\* C21: the upgrade of an old state file fails safe: right after load_state
\* every entry that was stored as an integer is a record with notified and
\* confirmed set, and a file that is cut short or is not an object loads as
\* the empty default state; a step of a tick whose result lists the transfer
\* of such a record sends no incoming and no confirmed message for it.
C21_LegacyUpgradeFailsSafe ==
    /\ hist.last = "init" =>
          LET file == disk.fs[STATE_FILE]
          IN  /\ \A k \in hist.legacy :
                    /\ btc_seen[k] # NoRec /\ btc_seen[k].notified /\ btc_seen[k].confirmed
                    /\ btc_seen[k].last_ts = file.data.btc_seen[k].old_ts
              /\ (file.written < Chunks \/ file.data = NonDict) => TheState = StateDefault(now)
    /\ [][\A k \in hist.legacy :
             (btc_seen[k] # NoRec /\ btc_seen[k].notified /\ btc_seen[k].confirmed) =>
                 \A i \in 1..Len(outbox') : ~(outbox'[i].addr = k[1] /\ outbox'[i].id = k[2])]_vars

\* C22: with BTC_ONLY_LATEST off, for as long as a record stays in btc_seen
\* its notified flag never goes from true to false and its confirmed flag
\* never goes from true to false (a record that a step prunes, and may store
\* anew, has not stayed).
C22_NotifyAllFlagsMonotonic ==
    [][~cfg.BTC_ONLY_LATEST =>
          \A k \in BtcKeys :
             (btc_seen[k] # NoRec /\ btc_seen'[k] # NoRec /\ k \notin hist'.removed) =>
                 /\ btc_seen[k].notified => btc_seen'[k].notified
                 /\ btc_seen[k].confirmed => btc_seen'[k].confirmed]_vars
====
